---- MODULE Spec2Model ----
(***************************************************************************)
(* Model of lib/multi_agent_coder/merge/parsers/scripts/rust_parser.rs:    *)
(* the command-line entry point `main` and the syntax-tree visitor         *)
(* `RustVisitor` that fills a `ParseResult`.                               *)
(*                                                                         *)
(* The recursion of the visitor is modelled by an explicit call stack: a   *)
(* task is one pending call `op(node)`; an action pops the task on top,    *)
(* applies the body of that function to `result` and pushes the calls the  *)
(* function makes, in call order.  Nodes of the syntax tree are named by   *)
(* their path from the root (the sequence of child indices), so that the   *)
(* document order of two nodes is the order of their paths.                *)
(*                                                                         *)
(* Strings are sequences of one-character strings, so that the substring   *)
(* tests of visit_expr are computed on the rendered text of a call.        *)
(***************************************************************************)
EXTENDS Naturals, Integers, Sequences, FiniteSets, TLC

VARIABLES pc, content, syntax_tree, result, stack, stdout, stderr, exit_code, stages

vars == <<pc, content, syntax_tree, result, stack, stdout, stderr, exit_code, stages>>

\* Largest number of syntax nodes of a source file (the root excluded).
MaxNodes == 3

-----------------------------------------------------------------------------
(* Text *)

Ident_g == <<"g">>

Ident_File == <<"F", "i", "l", "e">>

Ident_open == <<"o", "p", "e", "n">>

\* The token of the integer literal 1.
LitOne == <<"1">>

\* The token of the string literal "File::" (quotes included).
LitFileStr == <<"\"", "F", "i", "l", "e", ":", ":", "\"">>

LitTokens == {LitOne, LitFileStr}

\* The callee paths `g` and `File::open`, as sequences of segments.
CalleePaths == {<<Ident_g>>, <<Ident_File, Ident_open>>}

RECURSIVE JoinWith(_, _)
\* The strings of ss, separated by sep.
JoinWith(ss, sep) ==
    IF ss = <<>> THEN <<>>
    ELSE IF Len(ss) = 1 THEN Head(ss)
    ELSE Head(ss) \o sep \o JoinWith(Tail(ss), sep)

\* str::contains(pat)
Contains(text, pat) ==
    \E i \in 1..(Len(text) + 1) :
        /\ i + Len(pat) - 1 <= Len(text)
        /\ SubSeq(text, i, i + Len(pat) - 1) = pat

-----------------------------------------------------------------------------
(* Syntax trees *)

ItemKinds == {"Fn", "Struct", "Trait", "Impl", "Use", "Mod", "Const"}

LoopKinds == {"While", "Loop", "ForLoop"}

\* A syntax node.  kids are the sub-nodes the node's walk visits, in
\* document order: the statements of a block (items or expressions), the
\* items of a module, the methods of a trait or impl, the arm bodies of a
\* match, the arguments of a call, the initialiser of a const.  Sub-nodes
\* on which no overridden visitor method acts and that have no sub-nodes of
\* their own (the callee path of a call, a condition or scrutinee that is a
\* plain path, patterns, types) are left out; a `let` statement is
\* its initialiser expression.
Node(kind, func, lit, kids) == [kind |-> kind, func |-> func, lit |-> lit, kids |-> kids]

RECURSIVE Tree(_, _)
RECURSIVE Forest(_, _)
\* The sequences of trees of one sort with n nodes in total.
Forest(sort, n) ==
    IF n = 0 THEN {<<>>}
    ELSE UNION {{<<t>> \o f : t \in Tree(sort, m), f \in Forest(sort, n - m)} : m \in 1..n}

\* The trees of one sort with exactly n nodes.
Tree(sort, n) ==
    IF n = 0 THEN {}
    ELSE CASE sort = "stmt" -> Tree("item", n) \cup Tree("expr", n)
      [] sort = "item" ->
            (IF n = 1 THEN {Node(k, <<>>, <<>>, <<>>) : k \in {"Struct", "Use"}} ELSE {})
            \cup {Node("Fn", <<>>, <<>>, b) : b \in Forest("stmt", n - 1)}
            \cup {Node(k, <<>>, <<>>, ms) : k \in {"Trait", "Impl"}, ms \in Forest("method", n - 1)}
            \cup {Node("Mod", <<>>, <<>>, is) : is \in Forest("item", n - 1)}
            \cup {Node("Const", <<>>, <<>>, <<e>>) : e \in Tree("expr", n - 1)}
      [] sort = "method" ->
            {Node("Method", <<>>, <<>>, b) : b \in Forest("stmt", n - 1)}
      [] sort = "expr" ->
            Tree("arg", n)
            \cup {Node(k, <<>>, <<>>, b) : k \in {"If"} \cup LoopKinds, b \in Forest("stmt", n - 1)}
            \cup {Node("Match", <<>>, <<>>, as) : as \in Forest("expr", n - 1)}
      [] sort = "arg" ->
            (IF n = 1 THEN {Node("Lit", <<>>, l, <<>>) : l \in LitTokens} ELSE {})
            \cup {Node("Call", f, <<>>, as) : f \in CalleePaths, as \in Forest("arg", n - 1)}

\* The parsed files: the sequences of top-level items.
Files == UNION {Forest("item", n) : n \in 0..MaxNodes}

\* What fs::read_to_string can return: text that parses to a file, or text
\* the parser rejects.
Contents == {[ok |-> TRUE, items |-> f] : f \in Files} \cup {[ok |-> FALSE, items |-> <<>>]}

RECURSIVE Sub(_, _)
\* The node at path p below node n.
Sub(n, p) == IF p = <<>> THEN n ELSE Sub(n.kids[Head(p)], Tail(p))

Root == Node("File", <<>>, <<>>, syntax_tree)

NodeAt(p) == Sub(Root, p)

RECURSIVE PathsBelow(_, _)
\* The paths of all nodes of the tree n, whose own path is p.
PathsBelow(n, p) ==
    {p} \cup UNION {PathsBelow(n.kids[i], Append(p, i)) : i \in 1..Len(n.kids)}

AllPaths == PathsBelow(Root, <<>>) \ {<<>>}

PathsOfKind(ks) == {p \in AllPaths : NodeAt(p).kind \in ks}

IsPrefix(p, q) == Len(p) <= Len(q) /\ SubSeq(q, 1, Len(p)) = p

\* p comes strictly before q in the document (pre-order).
DocBefore(p, q) ==
    \/ IsPrefix(p, q) /\ p # q
    \/ \E i \in 1..Len(p) :
          /\ i <= Len(q)
          /\ SubSeq(p, 1, i - 1) = SubSeq(q, 1, i - 1)
          /\ p[i] < q[i]

-----------------------------------------------------------------------------
(* The accumulator *)

\* The value of `result` before RustVisitor::new has run (no accumulator).
Unset ==
    [functions |-> <<>>, structs |-> <<>>, traits |-> <<>>, impls |-> <<>>,
     imports |-> <<>>, dependencies |-> <<>>, side_effects |-> <<>>, complexity |-> 0]

New_ZeroComplexity == [Unset EXCEPT !.complexity = 0]

\* RustVisitor::new
New == [Unset EXCEPT !.complexity = 1]

\* The records keep the node they were built from: name, arity, params,
\* public, async_fn, fields and methods are all read off that node.
FunctionInfo(p) == [node |-> p]

TypeInfo(kind, p) == [kind |-> kind, node |-> p]

DependencyInfo(text, p) == [function |-> text, module |-> "None", node |-> p]

ImportEntry(p) == [node |-> p]

\* `complexity += n` on a u32.  The sum leaves the u32 range only after 2^32
\* increments, which no file of at most MaxNodes nodes reaches (and which
\* the checker's integers cannot hold), so the sum is the exact one.
AddU32(a, b) == a + b

RECURSIVE CallText(_)
\* quote::quote!(#call).to_string(): the tokens of the call separated by one
\* space, `::` being one token, the argument list a parenthesised group
\* printed without inner padding.
CallText(n) ==
    LET RenderArg(a) == IF a.kind = "Lit" THEN a.lit ELSE CallText(a)
        args == [i \in 1..Len(n.kids) |-> RenderArg(n.kids[i])]
    IN  JoinWith(n.func, <<" ", ":", ":", " ">>)
        \o <<" ", "(">> \o JoinWith(args, <<" ", ",", " ">>) \o <<")">>

IoPatterns ==
    { <<"p", "r", "i", "n", "t", "l", "n", "!">>,
      <<"p", "r", "i", "n", "t", "!">>,
      <<"w", "r", "i", "t", "e", "!">>,
      <<"F", "i", "l", "e", ":", ":">> }

IoTag == "io_operation"

\* func_name.contains("println!") || ... || func_name.contains("File::")
Qualifies(text) == \E pat \in IoPatterns : Contains(text, pat)

InSeq(s, x) == \E i \in 1..Len(s) : s[i] = x

ExprSideEffects_NoCheck(se, text) ==
    IF Qualifies(text) THEN Append(se, IoTag) ELSE se

\* visit_expr, Expr::Call arm: the side-effect tag.
ExprSideEffects(se, text) ==
    IF Qualifies(text) /\ ~InSeq(se, IoTag) THEN Append(se, IoTag) ELSE se

ExprComplexity_CallCounts(c, n) ==
    CASE n.kind = "If" -> AddU32(c, 1)
      [] n.kind = "Match" -> AddU32(c, Len(n.kids))
      [] n.kind \in LoopKinds -> AddU32(c, 1)
      [] n.kind = "Call" -> AddU32(c, 1)
      [] OTHER -> c

\* visit_expr: the complexity after the match on the expression kind.
ExprComplexity(c, n) ==
    CASE n.kind = "If" -> AddU32(c, 1)
      [] n.kind = "Match" -> AddU32(c, Len(n.kids))
      [] n.kind \in LoopKinds -> AddU32(c, 1)
      [] OTHER -> c

-----------------------------------------------------------------------------
(* The call stack of the traversal *)

Task(op, p) == [op |-> op, node |-> p]

\* visit_stmt: an item statement goes to visit_item, an expression to
\* visit_expr.
StmtTask(p) ==
    IF NodeAt(p).kind \in ItemKinds THEN Task("visit_item", p) ELSE Task("visit_expr", p)

\* The calls a default walk makes for the sub-nodes of p, in order.
KidTasks(p) == [i \in 1..Len(NodeAt(p).kids) |-> StmtTask(Append(p, i))]

RECURSIVE MethodBodyTasks(_, _)
\* The calls the default walk of a trait or impl (syn::visit::visit_item_impl,
\* which the visitor overrides) makes for the bodies of the methods i.. of p.
MethodBodyTasks(p, i) ==
    IF i > Len(NodeAt(p).kids) THEN <<>>
    ELSE KidTasks(Append(p, i)) \o MethodBodyTasks(p, i + 1)

\* visit_item: the handler the match on the item kind calls.
Dispatch(p) ==
    CASE NodeAt(p).kind = "Fn" -> <<Task("visit_item_fn", p)>>
      [] NodeAt(p).kind = "Struct" -> <<Task("visit_item_struct", p)>>
      [] NodeAt(p).kind = "Trait" -> <<Task("visit_item_trait", p)>>
      [] NodeAt(p).kind = "Impl" -> <<Task("visit_item_impl", p)>>
      [] OTHER -> <<>>

\* syn::visit::visit_item: the visitor method the walk of an item calls.
\* visit_item_use, visit_item_mod and visit_item_const are not overridden:
\* they walk the sub-nodes.
Walk(p) ==
    CASE NodeAt(p).kind \in {"Fn", "Struct", "Trait", "Impl"} -> Dispatch(p)
      [] NodeAt(p).kind \in {"Mod", "Const"} -> KidTasks(p)
      [] OTHER -> <<>>

VisitItemStructCalls(p) == <<>>

VisitItemTraitCalls(p) == <<>>

VisitItemImplCalls_Descend(p) == MethodBodyTasks(p, 1)

\* visit_item_impl makes no call to the visitor.
VisitItemImplCalls(p) == <<>>

Top == Head(stack)

Running(op) == pc = "visiting" /\ stack # <<>> /\ Top.op = op

-----------------------------------------------------------------------------
(* The visitor *)

VisitItem ==
    /\ Running("visit_item")
    /\ result' = IF NodeAt(Top.node).kind = "Use"
                 THEN [result EXCEPT !.imports = Append(@, ImportEntry(Top.node))]
                 ELSE result
    /\ stack' = Dispatch(Top.node) \o <<Task("walk_item", Top.node)>> \o Tail(stack)
    /\ UNCHANGED <<pc, content, syntax_tree, stdout, stderr, exit_code, stages>>

SynVisitItem ==
    /\ Running("walk_item")
    /\ stack' = Walk(Top.node) \o Tail(stack)
    /\ UNCHANGED <<pc, content, syntax_tree, result, stdout, stderr, exit_code, stages>>

VisitItemFn ==
    /\ Running("visit_item_fn")
    /\ result' = [result EXCEPT !.functions = Append(@, FunctionInfo(Top.node))]
    /\ stack' = KidTasks(Top.node) \o Tail(stack)
    /\ UNCHANGED <<pc, content, syntax_tree, stdout, stderr, exit_code, stages>>

VisitItemStruct ==
    /\ Running("visit_item_struct")
    /\ result' = [result EXCEPT !.structs = Append(@, TypeInfo("struct", Top.node))]
    /\ stack' = VisitItemStructCalls(Top.node) \o Tail(stack)
    /\ UNCHANGED <<pc, content, syntax_tree, stdout, stderr, exit_code, stages>>

VisitItemTrait ==
    /\ Running("visit_item_trait")
    /\ result' = [result EXCEPT !.traits = Append(@, TypeInfo("trait", Top.node))]
    /\ stack' = VisitItemTraitCalls(Top.node) \o Tail(stack)
    /\ UNCHANGED <<pc, content, syntax_tree, stdout, stderr, exit_code, stages>>

VisitItemImpl ==
    /\ Running("visit_item_impl")
    /\ result' = [result EXCEPT !.impls = Append(@, TypeInfo("impl", Top.node))]
    /\ stack' = VisitItemImplCalls(Top.node) \o Tail(stack)
    /\ UNCHANGED <<pc, content, syntax_tree, stdout, stderr, exit_code, stages>>

VisitExpr ==
    /\ Running("visit_expr")
    /\ LET n == NodeAt(Top.node)
           text == CallText(n)
       IN  result' =
             IF n.kind = "Call"
             THEN [result EXCEPT
                     !.side_effects = ExprSideEffects(@, text),
                     !.dependencies = Append(@, DependencyInfo(text, Top.node)),
                     !.complexity = ExprComplexity(@, n)]
             ELSE [result EXCEPT !.complexity = ExprComplexity(@, n)]
    /\ stack' = KidTasks(Top.node) \o Tail(stack)
    /\ UNCHANGED <<pc, content, syntax_tree, stdout, stderr, exit_code, stages>>

-----------------------------------------------------------------------------
(* main *)

\* The largest number of command-line words (program name included).
MaxArgc == 3

ErrNoPath == [error |-> "No file path provided"]

ErrRead == [error |-> "Failed to read file"]

ErrParse == [error |-> "Parse error"]

ErrJson == [error |-> "JSON encoding failed"]

\* eprintln!(...); std::process::exit(1)
Fail(e) ==
    /\ stderr' = Append(stderr, e)
    /\ exit_code' = 1
    /\ pc' = "exited"

CheckArgs ==
    /\ pc = "args"
    /\ stages' = Append(stages, "args")
    /\ \E argc \in 1..MaxArgc :
          IF argc < 2
          THEN Fail(ErrNoPath)
          ELSE pc' = "read" /\ UNCHANGED <<stderr, exit_code>>
    /\ UNCHANGED <<content, syntax_tree, result, stack, stdout>>

ReadFile ==
    /\ pc = "read"
    /\ stages' = Append(stages, "read")
    /\ \/ Fail(ErrRead) /\ UNCHANGED content
       \/ \E c \in Contents :
             content' = c /\ pc' = "parse" /\ UNCHANGED <<stderr, exit_code>>
    /\ UNCHANGED <<syntax_tree, result, stack, stdout>>

ParseFile_GoOn ==
    /\ pc = "parse"
    /\ stages' = Append(stages, "parse")
    /\ IF content.ok
       THEN syntax_tree' = content.items /\ pc' = "new" /\ UNCHANGED <<stderr, exit_code>>
       ELSE /\ stderr' = Append(stderr, ErrParse)
            /\ pc' = "new"
            /\ UNCHANGED <<syntax_tree, exit_code>>
    /\ UNCHANGED <<content, result, stack, stdout>>

ParseFile ==
    /\ pc = "parse"
    /\ stages' = Append(stages, "parse")
    /\ IF content.ok
       THEN syntax_tree' = content.items /\ pc' = "new" /\ UNCHANGED <<stderr, exit_code>>
       ELSE Fail(ErrParse) /\ UNCHANGED syntax_tree
    /\ UNCHANGED <<content, result, stack, stdout>>

NewVisitor ==
    /\ pc = "new"
    /\ stages' = Append(stages, "traversal")
    /\ result' = New
    /\ pc' = "visit_file"
    /\ UNCHANGED <<content, syntax_tree, stack, stdout, stderr, exit_code>>

\* visitor.visit_file(&syntax_tree): the walk of the file calls visit_item
\* on every top-level item.
VisitFile ==
    /\ pc = "visit_file"
    /\ stack' = KidTasks(<<>>)
    /\ pc' = "visiting"
    /\ UNCHANGED <<content, syntax_tree, result, stdout, stderr, exit_code, stages>>

Serialize ==
    /\ pc = "visiting"
    /\ stack = <<>>
    /\ stages' = Append(stages, "serialize")
    /\ \/ /\ stdout' = Append(stdout, [json |-> result])
          /\ exit_code' = 0
          /\ pc' = "exited"
          /\ UNCHANGED stderr
       \/ Fail(ErrJson) /\ UNCHANGED stdout
    /\ UNCHANGED <<content, syntax_tree, result, stack>>

-----------------------------------------------------------------------------

Init ==
    /\ pc = "args"
    /\ content = [ok |-> FALSE, items |-> <<>>]
    /\ syntax_tree = <<>>
    /\ result = Unset
    /\ stack = <<>>
    /\ stdout = <<>>
    /\ stderr = <<>>
    /\ exit_code = -1
    /\ stages = <<>>

Next ==
    \/ CheckArgs
    \/ ReadFile
    \/ ParseFile
    \/ NewVisitor
    \/ VisitFile
    \/ VisitItem
    \/ SynVisitItem
    \/ VisitItemFn
    \/ VisitItemStruct
    \/ VisitItemTrait
    \/ VisitItemImpl
    \/ VisitExpr
    \/ Serialize

Spec == Init /\ [][Next]_vars

-----------------------------------------------------------------------------
(* Properties *)

BranchKinds == {"If", "Match"} \cup LoopKinds

\* RustVisitor::new has run.
Created == InSeq(stages, "traversal")

\* visit_file has returned.
Traversed == Created /\ pc \in {"visiting", "exited"} /\ stack = <<>>

\* p lies inside a node of one of the kinds ks.
Inside(p, ks) ==
    \E k \in 1..Len(p) : k < Len(p) /\ NodeAt(SubSeq(p, 1, k)).kind \in ks

\* The records of s are in document order of their nodes.
InDocOrder(s) ==
    \A i \in 1..Len(s) : \A j \in 1..Len(s) :
        i < j => ~DocBefore(s[j].node, s[i].node)

\* C1: after visit_file, every function, struct, trait and impl declaration
\* of the source has exactly one record in its sequence.
C1_OneRecordPerDeclaration ==
    Traversed =>
        /\ Len(result.functions) = Cardinality(PathsOfKind({"Fn"}))
        /\ Len(result.structs) = Cardinality(PathsOfKind({"Struct"}))
        /\ Len(result.traits) = Cardinality(PathsOfKind({"Trait"}))
        /\ Len(result.impls) = Cardinality(PathsOfKind({"Impl"}))

\* C2: when the only branching construct of the source is one match with N
\* arms in a function body, the final complexity is 1 + N.
C2_SingleMatchComplexity ==
    \A m \in PathsOfKind({"Match"}) :
        ( /\ Traversed
          /\ PathsOfKind(BranchKinds) = {m}
          /\ Inside(m, {"Fn"}) )
        => result.complexity = 1 + Len(NodeAt(m).kids)

\* C3: after visit_file, imports has one entry per use declaration of the
\* source, wherever the declaration stands.
C3_ImportsCount ==
    Traversed => Len(result.imports) = Cardinality(PathsOfKind({"Use"}))

StageOrder == <<"args", "read", "parse", "traversal", "serialize">>

\* The stage that reports the error e.
StageOf(e) ==
    CASE e = ErrNoPath -> "args"
      [] e = ErrRead -> "read"
      [] e = ErrParse -> "parse"
      [] e = ErrJson -> "serialize"

\* C4: the stages of main run in order; a run that fails has run no stage
\* after the failing one, has written nothing to stdout and one error line
\* to stderr, and exits with 1; a run exits with 0 only after all stages,
\* one line on stdout and none on stderr; a parse failure leaves the
\* accumulator uncreated and no node visited.
C4_StagesShortCircuit ==
    /\ IsPrefix(stages, StageOrder)
    /\ exit_code \in {-1, 0, 1}
    /\ exit_code = -1 => pc # "exited" /\ stdout = <<>> /\ stderr = <<>>
    /\ exit_code = 1 =>
          /\ pc = "exited"
          /\ stdout = <<>>
          /\ Len(stderr) = 1
          /\ stages # <<>>
          /\ StageOf(stderr[1]) = stages[Len(stages)]
    /\ exit_code = 0 =>
          /\ pc = "exited"
          /\ Len(stdout) = 1
          /\ stdout[1] = [json |-> result]
          /\ stderr = <<>>
          /\ stages = StageOrder
    /\ (exit_code = 1 /\ stderr = <<ErrParse>>) =>
          ~Created /\ result = Unset /\ stack = <<>>

\* A run that ended on a parse error.
C4_Witness == pc = "exited" /\ exit_code = 1 /\ stderr = <<ErrParse>>

\* C5: after visit_file, each output sequence lists its records in the
\* document order of the nodes they come from.
C5_DocumentOrder ==
    Traversed =>
        /\ InDocOrder(result.functions)
        /\ InDocOrder(result.structs)
        /\ InDocOrder(result.traits)
        /\ InDocOrder(result.impls)
        /\ InDocOrder(result.imports)
        /\ InDocOrder(result.dependencies)

\* side_effects holds no tag twice.
NoDuplicateTag ==
    \A i \in 1..Len(result.side_effects) : \A j \in 1..Len(result.side_effects) :
        i # j => result.side_effects[i] # result.side_effects[j]

\* C6: side_effects never holds "io_operation" twice, and once it holds the
\* tag no step changes side_effects.
C6_IoTagOnce ==
    /\ [](NoDuplicateTag /\ Len(result.side_effects) <= 1)
    /\ [][InSeq(result.side_effects, IoTag) =>
            result'.side_effects = result.side_effects]_vars

\* Two qualifying calls have been handled and the tag is present.
C6_Witness ==
    /\ InSeq(result.side_effects, IoTag)
    /\ \E i \in 1..Len(result.dependencies) : \E j \in 1..Len(result.dependencies) :
          /\ i < j
          /\ Qualifies(result.dependencies[i].function)
          /\ Qualifies(result.dependencies[j].function)

AllEmpty ==
    /\ result.functions = <<>>
    /\ result.structs = <<>>
    /\ result.traits = <<>>
    /\ result.impls = <<>>
    /\ result.imports = <<>>
    /\ result.dependencies = <<>>
    /\ result.side_effects = <<>>

\* C7: a source without conditional, loop and match ends with complexity 1;
\* the empty file also ends with every sequence empty.
C7_NoBranchComplexityOne ==
    (Traversed /\ PathsOfKind(BranchKinds) = {}) =>
        /\ result.complexity = 1
        /\ syntax_tree = <<>> => AllEmpty

\* A traversed source with declarations and calls and no branching.
C7_Witness ==
    /\ Traversed
    /\ PathsOfKind(BranchKinds) = {}
    /\ Len(result.functions) >= 1
    /\ Len(result.dependencies) >= 2

C9_OneDependencyPerCall ==
    Traversed =>
        /\ Len(result.dependencies) =
              Cardinality({p \in PathsOfKind({"Call"}) : Inside(p, {"Fn"})})
        /\ \A i \in 1..Len(result.dependencies) : result.dependencies[i].module = "None"

TypeHandlers == {"visit_item_struct", "visit_item_trait", "visit_item_impl"}

\* The sequence of result a type handler appends to.
OwnSeq(r, op) ==
    CASE op = "visit_item_struct" -> r.structs
      [] op = "visit_item_trait" -> r.traits
      [] op = "visit_item_impl" -> r.impls

\* C10: visit_item_struct, visit_item_trait and visit_item_impl append one
\* record to their own sequence, change nothing else of the accumulator and
\* call no visitor method; so no record comes from inside a trait or impl,
\* and branching and calls there leave complexity, dependencies and
\* side_effects alone.
C10_TypeHandlersDoNotDescend ==
    /\ [][(pc = "visiting" /\ stack # <<>> /\ Top.op \in TypeHandlers) =>
            /\ stack' = Tail(stack)
            /\ Len(OwnSeq(result', Top.op)) = Len(OwnSeq(result, Top.op)) + 1
            /\ \A op \in TypeHandlers \ {Top.op} : OwnSeq(result', op) = OwnSeq(result, op)
            /\ result'.functions = result.functions
            /\ result'.imports = result.imports
            /\ result'.dependencies = result.dependencies
            /\ result'.side_effects = result.side_effects
            /\ result'.complexity = result.complexity]_vars
    /\ [](/\ \A i \in 1..Len(result.functions) :
                ~Inside(result.functions[i].node, {"Trait", "Impl"})
          /\ \A i \in 1..Len(result.dependencies) :
                ~Inside(result.dependencies[i].node, {"Trait", "Impl"})
          /\ (Traversed /\ \A p \in PathsOfKind(BranchKinds) : Inside(p, {"Trait", "Impl"}))
                => result.complexity = 1
          /\ (Traversed /\ \A p \in PathsOfKind({"Call"}) : Inside(p, {"Trait", "Impl"}))
                => result.dependencies = <<>> /\ result.side_effects = <<>>)

\* An impl whose method body holds a conditional has been traversed.
C10_Witness ==
    /\ Traversed
    /\ result.impls # <<>>
    /\ \E p \in PathsOfKind({"If"}) : Inside(p, {"Impl"})

====
